---- MODULE Spec2Model ----
(***************************************************************************)
(* Verification model of the mini-lsm storage engine:                      *)
(*   - the Storage facade (storage/src/storage.rs) over the transaction    *)
(*     manager and the keyspaces,                                          *)
(*   - the per-keyspace compaction worker (compaction/compaction.rs),      *)
(*   - the storage-engine iterator (utils/storage_engine_iterator.rs),     *)
(*   - the two-way merge iterator (utils/two_merge_iterators.rs),          *)
(*   - storage::new on a restart (storage/src/storage.rs),                 *)
(*   - the secondary indexes of a table (db/src/index/secondary_indexes.rs)*)
(* Each subsystem has its own specification (SpecStorage, SpecBatch,       *)
(* SpecStart, SpecCompaction, SpecCompactionFair, SpecIter, SpecTwoMerge,  *)
(* SpecIndex); the variables of the others stay unchanged.                 *)
(***************************************************************************)
EXTENDS Integers, Sequences, FiniteSets, TLC

VARIABLES
    \* ---- transaction manager + keyspaces, as used by Storage
    next_txn_id,        \* TransactionManager: monotonic id counter
    txn_log,            \* TransactionManager: per txn id "none"|"active"|"committed"|"rolledback"
    transactions,       \* the Transaction objects handed out (isolation level, snapshot)
    memtable,           \* versioned entries of every keyspace: [keyspace, key, txn_id] -> value
    last_call,          \* the last Storage call that returned, with its result
    open_scans,         \* transactions of the iterators returned by scan_all and not yet dropped
    keyspaces,          \* Keyspaces: the ids of the keyspaces that exist
    \* ---- one keyspace: manifest, SSTables registry, compaction
    engine,             \* "up" | "down" (the process was killed, storage::new has not run yet)
    manifest,           \* the keyspace's manifest file: sequence of operations
    sstables,           \* the in-memory SSTables registry: [l0, l1] sets of sstable ids
    files,              \* the sst-<id> files on disk
    content,            \* the entries each SSTable file holds
    next_sstable_id,    \* id of the next SSTable file to be written
    obsolete,           \* SSTables swapped out of the registry, deleted once unreferenced
    compactor,          \* the compaction worker thread and a direct caller of Compaction::compact
    reader,             \* a foreground reader building its view of the SSTables
    registry_history,   \* history: the file sets the registry held while the reader built its view
    n_flushes,          \* number of memtable flushes so far
    n_crashes,          \* number of times the process was killed
    \* ---- one StorageEngineItertor over an inner iterator
    inner,              \* the entries of the inner iterator, in its order
    it,                 \* the fields of the StorageEngineItertor (and the inner position)
    it_state,           \* "alive" | "panicked" | "diverged" | "dropped"
    iter_commits,       \* the transactions the iterator passed to TransactionManager::commit
    yielded,            \* history: the entries on which next() returned true
    last_result,        \* history: the last call on the iterator and how it ended
    \* ---- one TwoMergeIterator over two child iterators
    child_a,            \* the keys of child iterator a, in its order
    child_b,            \* the keys of child iterator b, in its order
    two_merge,          \* the fields of the TwoMergeIterator (and the children's positions)
    two_merge_state,    \* "alive" | "panicked" | "finished"
    exposed,            \* history: key() and its child after each next() that returned true
    \* ---- storage::new on a restart
    new_pc,             \* the statement of new that runs next
    to_rollback,        \* rollback_active_transactions: the ids collected and not yet handled
    incomplete_operations,  \* manifest operations without completion, their files still on disk
    manifest_recovered, \* Keyspaces::recover_from_manifest has finished
    compaction_threads_started, \* the keyspaces' compaction workers run
    handled,            \* history: per txn id how often new rolled it back / force-aborted it
    worker_ran_at,      \* history: the statements of new during which a worker iteration ran
    \* ---- the SecondaryIndexes of one table
    secondary_index_by_column_id,   \* column id -> keyspace id of its index, 0 when none
    next_index_keyspace_id,         \* the keyspace id Storage::create_keyspace returns next
    index_result                    \* the last SecondaryIndexes call and what it returned

storage_vars == <<next_txn_id, txn_log, transactions, memtable, last_call, open_scans>>

compaction_vars == <<engine, manifest, sstables, files, content, next_sstable_id, obsolete,
                     compactor, reader, registry_history, n_flushes, n_crashes>>

iter_vars == <<inner, it, it_state, iter_commits, yielded, last_result>>

two_merge_vars == <<child_a, child_b, two_merge, two_merge_state, exposed>>

start_vars == <<new_pc, to_rollback, incomplete_operations, manifest_recovered,
                compaction_threads_started, handled, worker_ran_at>>

index_vars == <<secondary_index_by_column_id, next_index_keyspace_id, index_result>>

vars == <<storage_vars, keyspaces, compaction_vars, iter_vars, two_merge_vars, start_vars,
          index_vars>>

----------------------------------------------------------------------------
\* Bounds of the model

MaxTxn == 2

TxnIds == 1..MaxTxn

Keys == {"a"}

Values == {"v1", "v2"}

Tombstone == "tombstone"

NoEntry == "none"

\* the keyspace ids a caller may pass
KeyspaceIds == {1, 2}

SnapshotIsolation == "SnapshotIsolation"

ReadUncommited == "ReadUncommited"

IsolationLevel == {SnapshotIsolation, ReadUncommited}

----------------------------------------------------------------------------
\* Transaction manager (transactions/transaction_manager.rs), after the
\* engine's description of the manager: ids, active set, commit/rollback log

active_transactions == {t \in TxnIds : txn_log[t] = "active"}

committed_transactions == {t \in TxnIds : txn_log[t] = "committed"}

rolledback_transactions == {t \in TxnIds : txn_log[t] = "rolledback"}

\* A Transaction object: txn_id, isolation_level, active_transactions (the
\* snapshot taken at start). History fields, read by no operation:
\* committed_at_start (the transactions whose commit_transaction had returned
\* when this one started), commit_called, and held (the caller still owns it).
NoTransaction ==
    [started |-> FALSE, txn_id |-> 0, isolation_level |-> SnapshotIsolation,
     active_transactions |-> {}, committed_at_start |-> {}, commit_called |-> FALSE,
     held |-> FALSE]

new_transaction(isolation_level, held) ==
    [started |-> TRUE, txn_id |-> next_txn_id, isolation_level |-> isolation_level,
     active_transactions |-> active_transactions,
     committed_at_start |-> {t \in TxnIds : transactions[t].commit_called},
     commit_called |-> FALSE, held |-> held]

\* TransactionManager::start_transaction: takes the next id, snapshots the
\* active set, registers the id as active.
tm_start_transaction(isolation_level, held) ==
    /\ next_txn_id <= MaxTxn
    /\ next_txn_id' = next_txn_id + 1
    /\ txn_log' = [txn_log EXCEPT ![next_txn_id] = "active"]
    /\ transactions' = [transactions EXCEPT ![next_txn_id] =
                            new_transaction(isolation_level, held)]

\* TransactionManager::commit: removes the id from the active set, logs the commit
tm_commit(t) == [txn_log EXCEPT ![t] = "committed"]

\* TransactionManager::rollback: logs the rollback; the entries stay stored
tm_rollback(t) == [txn_log EXCEPT ![t] = "rolledback"]

\* Visibility of an entry written by txn e to the Transaction txn
can_read(txn, e) ==
    IF txn.isolation_level = ReadUncommited
    THEN e <= MaxTxn + 1
    ELSE /\ e <= txn.txn_id
         /\ e \notin txn.active_transactions
         /\ (txn_log[e] = "committed" \/ e = txn.txn_id)

----------------------------------------------------------------------------
\* Keyspace (keyspace/keyspace.rs), after the engine's description

\* Keyspaces::get_keyspace
get_keyspace_ok(keyspace_id) == keyspace_id \in keyspaces

Max(S) == CHOOSE m \in S : \A x \in S : x <= m

visible_versions(keyspace_id, txn, key) ==
    {e \in TxnIds : memtable[keyspace_id, key, e] # NoEntry /\ can_read(txn, e)}

\* the writer of the version Keyspace::get_with_transaction returns, 0 when none
visible_writer(keyspace_id, txn, key) ==
    IF visible_versions(keyspace_id, txn, key) = {} THEN 0
    ELSE Max(visible_versions(keyspace_id, txn, key))

\* Keyspace::get_with_transaction: newest visible version; a tombstone reads as None
keyspace_get_with_transaction(keyspace_id, txn, key) ==
    LET w == visible_writer(keyspace_id, txn, key) IN
    IF w = 0 \/ memtable[keyspace_id, key, w] = Tombstone THEN NoEntry
    ELSE memtable[keyspace_id, key, w]

\* Keyspace::set_with_transaction / delete_with_transaction: rejected for a
\* rolled-back transaction, else the versioned entry (key, t) is written
keyspace_write_ok(t) == txn_log[t] # "rolledback"

keyspace_write(mem, keyspace_id, t, key, value) ==
    [mem EXCEPT ![keyspace_id, key, t] = value]

----------------------------------------------------------------------------
\* Storage facade (storage/src/storage.rs)

MaxBatch == 2

Call(op, t, keyspace_id, key, ok, value, writer) ==
    [op |-> op, txn_id |-> t, keyspace_id |-> keyspace_id, key |-> key,
     ok |-> ok, value |-> value, writer |-> writer]

held_transactions == {t \in TxnIds : transactions[t].started /\ transactions[t].held}

\* Storage::start_transaction
start_transaction ==
    /\ tm_start_transaction(SnapshotIsolation, TRUE)
    /\ last_call' = Call("start_transaction", next_txn_id, 0, "", TRUE, NoEntry, 0)
    /\ UNCHANGED <<memtable, open_scans>>

\* Storage::start_transaction_with_isolation
start_transaction_with_isolation(isolation_level) ==
    /\ tm_start_transaction(isolation_level, TRUE)
    /\ last_call' = Call("start_transaction_with_isolation", next_txn_id, 0, "", TRUE, NoEntry, 0)
    /\ UNCHANGED <<memtable, open_scans>>

\* commit_transaction with the manager's rollback called in place of commit
commit_transaction_as_rollback(t) ==
    /\ t \in held_transactions
    /\ txn_log' = tm_rollback(t)
    /\ transactions' = [transactions EXCEPT ![t].held = FALSE, ![t].commit_called = TRUE]
    /\ last_call' = Call("commit_transaction", t, 0, "", TRUE, NoEntry, 0)
    /\ UNCHANGED <<next_txn_id, memtable, open_scans>>

\* Storage::commit_transaction (takes the Transaction by value)
commit_transaction(t) ==
    /\ t \in held_transactions
    /\ txn_log' = tm_commit(t)
    /\ transactions' = [transactions EXCEPT ![t].held = FALSE, ![t].commit_called = TRUE]
    /\ last_call' = Call("commit_transaction", t, 0, "", TRUE, NoEntry, 0)
    /\ UNCHANGED <<next_txn_id, memtable, open_scans>>

\* Storage::rollback_transaction (takes the Transaction by value)
rollback_transaction(t) ==
    /\ t \in held_transactions
    /\ txn_log' = tm_rollback(t)
    /\ transactions' = [transactions EXCEPT ![t].held = FALSE]
    /\ last_call' = Call("rollback_transaction", t, 0, "", TRUE, NoEntry, 0)
    /\ UNCHANGED <<next_txn_id, memtable, open_scans>>

\* get_with_transaction reading with a transaction started for the read in
\* place of the caller's transaction
get_with_transaction_result_fresh(keyspace_id, txn, key) ==
    LET fresh == [new_transaction(SnapshotIsolation, FALSE) EXCEPT !.txn_id = MaxTxn + 1] IN
    IF ~get_keyspace_ok(keyspace_id)
    THEN [ok |-> FALSE, value |-> NoEntry, writer |-> 0]
    ELSE [ok |-> TRUE,
          value |-> keyspace_get_with_transaction(keyspace_id, fresh, key),
          writer |-> IF keyspace_get_with_transaction(keyspace_id, fresh, key) = NoEntry
                     THEN 0 ELSE visible_writer(keyspace_id, fresh, key)]

\* what Storage::get_with_transaction returns: (ok, value, writer of the value)
get_with_transaction_result(keyspace_id, txn, key) ==
    IF ~get_keyspace_ok(keyspace_id)
    THEN [ok |-> FALSE, value |-> NoEntry, writer |-> 0]
    ELSE [ok |-> TRUE,
          value |-> keyspace_get_with_transaction(keyspace_id, txn, key),
          writer |-> IF keyspace_get_with_transaction(keyspace_id, txn, key) = NoEntry
                     THEN 0 ELSE visible_writer(keyspace_id, txn, key)]

\* Storage::get_with_transaction
get_with_transaction(keyspace_id, t, key) ==
    /\ t \in held_transactions
    /\ LET r == get_with_transaction_result(keyspace_id, transactions[t], key) IN
       last_call' = Call("get_with_transaction", t, keyspace_id, key, r.ok, r.value, r.writer)
    /\ UNCHANGED <<next_txn_id, txn_log, transactions, memtable, open_scans>>

\* what Storage::set_with_transaction / delete_with_transaction do to the
\* entries: (ok, entries after the call)
write_with_transaction_result(mem, keyspace_id, t, key, value) ==
    IF get_keyspace_ok(keyspace_id) /\ keyspace_write_ok(t)
    THEN [ok |-> TRUE, mem |-> keyspace_write(mem, keyspace_id, t, key, value)]
    ELSE [ok |-> FALSE, mem |-> mem]

\* Storage::set_with_transaction
set_with_transaction(keyspace_id, t, key, value) ==
    /\ t \in held_transactions
    /\ LET r == write_with_transaction_result(memtable, keyspace_id, t, key, value) IN
       /\ memtable' = r.mem
       /\ last_call' = Call("set_with_transaction", t, 0, "", r.ok, NoEntry, 0)
    /\ UNCHANGED <<next_txn_id, txn_log, transactions, open_scans>>

\* Storage::delete_with_transaction
delete_with_transaction(keyspace_id, t, key) ==
    /\ t \in held_transactions
    /\ LET r == write_with_transaction_result(memtable, keyspace_id, t, key, Tombstone) IN
       /\ memtable' = r.mem
       /\ last_call' = Call("delete_with_transaction", t, 0, "", r.ok, NoEntry, 0)
    /\ UNCHANGED <<next_txn_id, txn_log, transactions, open_scans>>

\* Storage::scan_all_with_transaction
scan_all_with_transaction(keyspace_id, t) ==
    /\ t \in held_transactions
    /\ last_call' = Call("scan_all_with_transaction", t, 0, "",
                         get_keyspace_ok(keyspace_id), NoEntry, 0)
    /\ UNCHANGED <<next_txn_id, txn_log, transactions, memtable, open_scans>>

\* Storage::get: starts a SnapshotIsolation transaction and reads with it
get(keyspace_id, key) ==
    /\ tm_start_transaction(SnapshotIsolation, FALSE)
    /\ LET r == get_with_transaction_result(
                    keyspace_id, new_transaction(SnapshotIsolation, FALSE), key)
       IN last_call' = Call("get", next_txn_id, keyspace_id, key, r.ok, r.value, r.writer)
    /\ UNCHANGED <<memtable, open_scans>>

\* Storage::set: starts a SnapshotIsolation transaction and writes with it
set(keyspace_id, key, value) ==
    /\ tm_start_transaction(SnapshotIsolation, FALSE)
    /\ LET r == write_with_transaction_result(memtable, keyspace_id, next_txn_id, key, value) IN
       /\ memtable' = r.mem
       /\ last_call' = Call("set", next_txn_id, 0, "", r.ok, NoEntry, 0)
    /\ UNCHANGED open_scans

\* Storage::delete: starts a ReadUncommited transaction and deletes with it
delete(keyspace_id, key) ==
    /\ tm_start_transaction(ReadUncommited, FALSE)
    /\ LET r == write_with_transaction_result(memtable, keyspace_id, next_txn_id, key, Tombstone) IN
       /\ memtable' = r.mem
       /\ last_call' = Call("delete", next_txn_id, 0, "", r.ok, NoEntry, 0)
    /\ UNCHANGED open_scans

\* Storage::scan_all: starts a SnapshotIsolation transaction; the iterator it
\* returns is a StorageIterator (a TwoMergeIterator), which has no Drop
scan_all(keyspace_id) ==
    /\ tm_start_transaction(SnapshotIsolation, FALSE)
    /\ open_scans' = IF get_keyspace_ok(keyspace_id)
                     THEN open_scans \cup {next_txn_id} ELSE open_scans
    /\ last_call' = Call("scan_all", next_txn_id, 0, "",
                         get_keyspace_ok(keyspace_id), NoEntry, 0)
    /\ UNCHANGED memtable

\* the iterator returned by scan_all goes out of scope
drop_scan_iterator(t) ==
    /\ t \in open_scans
    /\ open_scans' = open_scans \ {t}
    /\ last_call' = Call("drop_scan_iterator", t, 0, "", TRUE, NoEntry, 0)
    /\ UNCHANGED <<next_txn_id, txn_log, transactions, memtable>>

\* WriteBatch records
WriteBatch ==
    [type : {"Put"}, keyspace_id : KeyspaceIds, key : Keys, value : Values]
    \cup [type : {"Delete"}, keyspace_id : KeyspaceIds, key : Keys, value : {Tombstone}]

RECURSIVE Batches(_)
Batches(n) ==
    IF n = 0 THEN {<< >>}
    ELSE Batches(n - 1) \cup {Append(b, e) : b \in {x \in Batches(n - 1) : Len(x) = n - 1}, e \in WriteBatch}

\* the batches a caller passes
AllBatches == Batches(MaxBatch)

\* the loop of write_batch taking the records from the last to the first
RECURSIVE apply_batch_last_record_first(_, _, _)
apply_batch_last_record_first(mem, batch, t) ==
    IF batch = << >> THEN [ok |-> TRUE, mem |-> mem]
    ELSE LET r == write_with_transaction_result(mem, batch[Len(batch)].keyspace_id, t,
                                                batch[Len(batch)].key, batch[Len(batch)].value)
         IN IF r.ok THEN apply_batch_last_record_first(r.mem, SubSeq(batch, 1, Len(batch) - 1), t)
            ELSE [ok |-> FALSE, mem |-> r.mem]

\* the loop of Storage::write_batch: the records in order, stopping at the
\* first error (the ? operator)
RECURSIVE apply_batch(_, _, _)
apply_batch(mem, batch, t) ==
    IF batch = << >> THEN [ok |-> TRUE, mem |-> mem]
    ELSE LET r == write_with_transaction_result(mem, Head(batch).keyspace_id, t,
                                                Head(batch).key, Head(batch).value)
         IN IF r.ok THEN apply_batch(r.mem, Tail(batch), t)
            ELSE [ok |-> FALSE, mem |-> r.mem]

\* Storage::write_batch
write_batch(batch) ==
    /\ tm_start_transaction(SnapshotIsolation, FALSE)
    /\ LET r == apply_batch(memtable, batch, next_txn_id) IN
       /\ memtable' = r.mem
       /\ last_call' = Call("write_batch", next_txn_id, 0, "", r.ok, NoEntry, 0)
    /\ UNCHANGED open_scans

StorageInit ==
    /\ next_txn_id = 1
    /\ txn_log = [t \in TxnIds |-> "none"]
    /\ transactions = [t \in TxnIds |-> NoTransaction]
    /\ memtable = [x \in KeyspaceIds \X Keys \X TxnIds |-> NoEntry]
    /\ last_call = Call("new", 0, 0, "", TRUE, NoEntry, 0)
    /\ open_scans = {}
    /\ keyspaces = {1}

StorageNext ==
    \/ start_transaction
    \/ \E i \in IsolationLevel : start_transaction_with_isolation(i)
    \/ \E t \in TxnIds : commit_transaction(t)
    \/ \E t \in TxnIds : rollback_transaction(t)
    \/ \E k \in KeyspaceIds, t \in TxnIds, key \in Keys : get_with_transaction(k, t, key)
    \/ \E k \in KeyspaceIds, t \in TxnIds, key \in Keys, v \in Values :
            set_with_transaction(k, t, key, v)
    \/ \E k \in KeyspaceIds, t \in TxnIds, key \in Keys : delete_with_transaction(k, t, key)
    \/ \E k \in KeyspaceIds, t \in TxnIds : scan_all_with_transaction(k, t)
    \/ \E k \in KeyspaceIds, key \in Keys : get(k, key)
    \/ \E k \in KeyspaceIds, key \in Keys, v \in Values : set(k, key, v)
    \/ \E k \in KeyspaceIds, key \in Keys : delete(k, key)
    \/ \E k \in KeyspaceIds : scan_all(k)
    \/ \E t \in TxnIds : drop_scan_iterator(t)
    \/ \E b \in Batches(MaxBatch) : write_batch(b)


----------------------------------------------------------------------------
\* write_batch over several keyspaces (storage/src/storage.rs)

\* Storage::create_keyspace: the keyspace with the next id comes to exist
create_keyspace ==
    /\ keyspaces # KeyspaceIds
    /\ keyspaces' = keyspaces \cup {Max(keyspaces) + 1}
    /\ last_call' = Call("create_keyspace", 0, Max(keyspaces) + 1, "", TRUE, NoEntry, 0)
    /\ UNCHANGED <<next_txn_id, txn_log, transactions, memtable, open_scans>>

BatchNext ==
    \/ create_keyspace
    \/ \E b \in AllBatches : write_batch(b) /\ UNCHANGED keyspaces

----------------------------------------------------------------------------
\* storage::new on a restart (storage/src/storage.rs): the transaction manager
\* recovered from its log and the keyspaces loaded, then the three calls of
\* new in their order

\* the kinds of manifest operation
OperationKinds == {"MemtableFlush", "Compaction"}

NotHandled == [rollback |-> 0, failure |-> 0, manifest_recovered |-> FALSE]

\* Keyspaces::has_txn_id_been_written: some keyspace holds an entry of the id
has_txn_id_been_written(id) ==
    \E k \in keyspaces, key \in Keys : memtable[k, key, id] # NoEntry

\* TransactionManager::rollback_active_transaction_failure: the id leaves the
\* active set, nothing else happens
tm_rollback_active_transaction_failure(id) == [txn_log EXCEPT ![id] = "aborted"]

\* TransactionManager::get_active_transactions, first statement of
\* rollback_active_transactions
get_active_transactions ==
    /\ new_pc = "get_active_transactions"
    /\ to_rollback' = active_transactions
    /\ new_pc' = "rollback_active_transactions"
    /\ UNCHANGED <<storage_vars, incomplete_operations, manifest_recovered,
                   compaction_threads_started, handled, worker_ran_at>>

\* the loop body with the manager's rollback called whatever the keyspaces hold
rollback_active_transaction_unconditionally(id) ==
    /\ new_pc = "rollback_active_transactions"
    /\ id \in to_rollback
    /\ to_rollback' = to_rollback \ {id}
    /\ txn_log' = tm_rollback(id)
    /\ handled' = [handled EXCEPT ![id].rollback = @ + 1,
                                  ![id].manifest_recovered = manifest_recovered]
    /\ UNCHANGED <<next_txn_id, transactions, memtable, last_call, open_scans, new_pc,
                   incomplete_operations, manifest_recovered, compaction_threads_started,
                   worker_ran_at>>

\* one iteration of the loop of Storage::rollback_active_transactions
rollback_active_transaction(id) ==
    /\ new_pc = "rollback_active_transactions"
    /\ id \in to_rollback
    /\ to_rollback' = to_rollback \ {id}
    /\ IF has_txn_id_been_written(id)
       THEN /\ txn_log' = tm_rollback(id)
            /\ handled' = [handled EXCEPT ![id].rollback = @ + 1,
                                          ![id].manifest_recovered = manifest_recovered]
       ELSE /\ txn_log' = tm_rollback_active_transaction_failure(id)
            /\ handled' = [handled EXCEPT ![id].failure = @ + 1,
                                          ![id].manifest_recovered = manifest_recovered]
    /\ UNCHANGED <<next_txn_id, transactions, memtable, last_call, open_scans, new_pc,
                   incomplete_operations, manifest_recovered, compaction_threads_started,
                   worker_ran_at>>

\* the loop of rollback_active_transactions ends
rollback_active_transactions_return ==
    /\ new_pc = "rollback_active_transactions"
    /\ to_rollback = {}
    /\ new_pc' = "recover_from_manifest"
    /\ UNCHANGED <<storage_vars, to_rollback, incomplete_operations, manifest_recovered,
                   compaction_threads_started, handled, worker_ran_at>>

\* Keyspaces::recover_from_manifest: every keyspace cleans up its incomplete
\* operations and rebuilds its registry
keyspaces_recover_from_manifest ==
    /\ new_pc = "recover_from_manifest"
    /\ incomplete_operations' = {}
    /\ manifest_recovered' = TRUE
    /\ new_pc' = "start_keyspaces_compaction_threads"
    /\ UNCHANGED <<storage_vars, to_rollback, compaction_threads_started, handled,
                   worker_ran_at>>

\* the workers started while new is still at recover_from_manifest
start_keyspaces_compaction_threads_before_recovery ==
    /\ new_pc = "recover_from_manifest"
    /\ ~compaction_threads_started
    /\ compaction_threads_started' = TRUE
    /\ UNCHANGED <<storage_vars, new_pc, to_rollback, incomplete_operations,
                   manifest_recovered, handled, worker_ran_at>>

\* Keyspaces::start_keyspaces_compaction_threads, after which new returns
start_keyspaces_compaction_threads ==
    /\ new_pc = "start_keyspaces_compaction_threads"
    /\ compaction_threads_started' = TRUE
    /\ new_pc' = "returned"
    /\ UNCHANGED <<storage_vars, to_rollback, incomplete_operations, manifest_recovered,
                   handled, worker_ran_at>>

\* one iteration of a started worker's loop (CompactionThread::start_compactions)
start_compactions_iteration ==
    /\ compaction_threads_started
    /\ worker_ran_at' = worker_ran_at \cup {new_pc}
    /\ UNCHANGED <<storage_vars, new_pc, to_rollback, incomplete_operations,
                   manifest_recovered, compaction_threads_started, handled>>

\* the logs create_recover_from_log can recover: ids 1..n used, each one
\* active, committed or rolled back
RecoveredLogs ==
    {l \in [TxnIds -> {"none", "active", "committed", "rolledback"}] :
        \A t \in TxnIds : l[t] = "none" => \A u \in TxnIds : u > t => l[u] = "none"}

\* the state when the Storage struct has been built (storage.rs 28-39)
StartInit ==
    /\ txn_log \in RecoveredLogs
    /\ next_txn_id = Cardinality({t \in TxnIds : txn_log[t] # "none"}) + 1
    /\ transactions = [t \in TxnIds |-> NoTransaction]
    /\ keyspaces = {1}
    /\ memtable \in {m \in [KeyspaceIds \X Keys \X TxnIds -> Values \cup {Tombstone, NoEntry}] :
                        \A x \in DOMAIN m :
                            (x[1] \notin keyspaces \/ txn_log[x[3]] = "none") => m[x] = NoEntry}
    /\ last_call = Call("new", 0, 0, "", TRUE, NoEntry, 0)
    /\ open_scans = {}
    /\ new_pc = "get_active_transactions"
    /\ to_rollback = {}
    /\ incomplete_operations \in SUBSET OperationKinds
    /\ manifest_recovered = FALSE
    /\ compaction_threads_started = FALSE
    /\ handled = [t \in TxnIds |-> NotHandled]
    /\ worker_ran_at = {}

\* new is not running: the engine was started on an empty directory
StartIdle ==
    /\ new_pc = "returned"
    /\ to_rollback = {}
    /\ incomplete_operations = {}
    /\ manifest_recovered = TRUE
    /\ compaction_threads_started = TRUE
    /\ handled = [t \in TxnIds |-> NotHandled]
    /\ worker_ran_at = {}

StartNext ==
    \/ get_active_transactions
    \/ \E id \in TxnIds : rollback_active_transaction(id)
    \/ rollback_active_transactions_return
    \/ keyspaces_recover_from_manifest
    \/ start_keyspaces_compaction_threads
    \/ start_compactions_iteration

----------------------------------------------------------------------------
\* SecondaryIndexes of one table (db/src/index/secondary_indexes.rs)

MaxColumn == 3

MaxIndexKeyspace == 3

ColumnIds == 1..MaxColumn

NoIndex == 0

IndexCall(op, t, column_id, ok, error, error_column_id, keyspace_id, scan_txn_id) ==
    [op |-> op, txn_id |-> t, column_id |-> column_id, ok |-> ok, error |-> error,
     error_column_id |-> error_column_id, keyspace_id |-> keyspace_id,
     scan_txn_id |-> scan_txn_id]

\* SecondaryIndex::scan_all: the iterator over the index's keyspace read with
\* the transaction
secondary_index_scan_all(keyspace_id, t) ==
    [ok |-> TRUE, error |-> "", error_column_id |-> 0, keyspace_id |-> keyspace_id,
     scan_txn_id |-> t]

\* scan_all answering IndexNotFound also for the column with the greatest id
\* that has an index
scan_all_result_missing_last(t, column_id) ==
    IF secondary_index_by_column_id[column_id] = NoIndex
       \/ column_id = Max({c \in ColumnIds : secondary_index_by_column_id[c] # NoIndex})
    THEN [ok |-> FALSE, error |-> "IndexNotFound", error_column_id |-> column_id,
          keyspace_id |-> 0, scan_txn_id |-> 0]
    ELSE secondary_index_scan_all(secondary_index_by_column_id[column_id], t)

\* what SecondaryIndexes::scan_all returns
scan_all_result(t, column_id) ==
    IF secondary_index_by_column_id[column_id] = NoIndex
    THEN [ok |-> FALSE, error |-> "IndexNotFound", error_column_id |-> column_id,
          keyspace_id |-> 0, scan_txn_id |-> 0]
    ELSE secondary_index_scan_all(secondary_index_by_column_id[column_id], t)

\* SecondaryIndexes::scan_all
secondary_indexes_scan_all(t, column_id) ==
    /\ LET r == scan_all_result(t, column_id) IN
       index_result' = IndexCall("scan_all", t, column_id, r.ok, r.error, r.error_column_id,
                                 r.keyspace_id, r.scan_txn_id)
    /\ UNCHANGED <<secondary_index_by_column_id, next_index_keyspace_id>>

\* SecondaryIndexes::create_new_secondary_index: a keyspace is created and the
\* index over it registered for the column; an error of create_keyspace is
\* returned and nothing registered
create_new_secondary_index(column_id) ==
    \/ /\ next_index_keyspace_id <= MaxIndexKeyspace
       /\ next_index_keyspace_id' = next_index_keyspace_id + 1
       /\ secondary_index_by_column_id' =
              [secondary_index_by_column_id EXCEPT ![column_id] = next_index_keyspace_id]
       /\ index_result' = IndexCall("create_new_secondary_index", 0, column_id, TRUE, "", 0,
                                    next_index_keyspace_id, 0)
    \/ /\ index_result' = IndexCall("create_new_secondary_index", 0, column_id, FALSE, "IO", 0,
                                    0, 0)
       /\ UNCHANGED <<secondary_index_by_column_id, next_index_keyspace_id>>

\* SecondaryIndexes::create_empty
IndexInit ==
    /\ secondary_index_by_column_id = [c \in ColumnIds |-> NoIndex]
    /\ next_index_keyspace_id = 1
    /\ index_result = IndexCall("create_empty", 0, 0, TRUE, "", 0, 0, 0)

IndexNext ==
    \/ \E c \in ColumnIds : create_new_secondary_index(c)
    \/ \E t \in TxnIds, c \in ColumnIds : secondary_indexes_scan_all(t, c)

----------------------------------------------------------------------------
\* Manifest, SSTables registry and compaction of one keyspace
\* (compaction/compaction.rs; the manifest, the registry, the execution of a
\* task and the recovery follow the engine's description)

MaxSst == 3

MaxOps == 2

MaxFlush == 1

MaxCrash == 1

\* SimpleLeveledOptions::level0_file_num_compaction_trigger
level0_file_num_compaction_trigger == 1

SstIds == 1..MaxSst

Compactors == {"worker", "caller"}

registry_files(r) == r.l0 \cup r.l1

\* the entries a scan over the registry r reads (only files that exist can be read)
scan_content(r, fs) == UNION {content[f] : f \in registry_files(r) \cap fs}

IdleCompactor(pc) ==
    [pc |-> pc, task |-> {}, operation_id |-> 0, output |-> 0, result |-> "none"]

\* a compactor is executing a compaction task
executing(p) == compactor[p].pc \in {"compact", "swap"}

\* the registry's read-write lock is held shared by the reader
lock_shared == reader.pc \in {"locked_l0", "locked_l1"}

\* exclusive access granted without regard to the readers
lock_exclusive_free_ignoring_readers == TRUE

\* exclusive access to the registry can be taken
lock_exclusive_free == ~lock_shared

\* Manifest::append_operation can write (the file has room)
manifest_writable == Len(manifest) < MaxOps

\* create_simple_level_compaction_task: level 0 holds at least the trigger
\* number of files: compact level 0 with level 1 into level 1
create_compaction_task ==
    IF Cardinality(sstables.l0) >= level0_file_num_compaction_trigger
    THEN registry_files(sstables) ELSE {}

\* memtable flush to a level-0 SSTable, recorded in the manifest and completed
memtable_flush ==
    /\ engine = "up"
    /\ n_flushes < MaxFlush
    /\ next_sstable_id <= MaxSst
    /\ manifest_writable
    /\ lock_exclusive_free
    /\ n_flushes' = n_flushes + 1
    /\ next_sstable_id' = next_sstable_id + 1
    /\ files' = files \cup {next_sstable_id}
    /\ content' = [content EXCEPT ![next_sstable_id] = {next_sstable_id}]
    /\ sstables' = [sstables EXCEPT !.l0 = @ \cup {next_sstable_id}]
    /\ manifest' = Append(manifest, [kind |-> "MemtableFlush", inputs |-> {},
                                     output |-> next_sstable_id, completed |-> TRUE,
                                     failed |-> FALSE])
    /\ registry_history' = IF reader.pc = "idle" THEN registry_history
                           ELSE registry_history \cup {registry_files(sstables')}
    /\ UNCHANGED <<engine, obsolete, compactor, reader, n_crashes>>

\* CompactionThread::start_compactions, line 92: the strategy proposes a task
worker_create_compaction_task ==
    /\ engine = "up"
    /\ compactor["worker"].pc = "sleep"
    /\ create_compaction_task # {}
    /\ compactor' = [compactor EXCEPT !["worker"] =
                        [IdleCompactor("append") EXCEPT !.task = create_compaction_task]]
    /\ UNCHANGED <<engine, manifest, sstables, files, content, next_sstable_id, obsolete,
                   reader, registry_history, n_flushes, n_crashes>>

\* start_compactions keeping the id of the manifest's last operation when
\* append_operation returned Err
worker_append_operation_keeping_last_id ==
    /\ engine = "up"
    /\ compactor["worker"].pc = "append"
    /\ \/ /\ manifest_writable
          /\ manifest' = Append(manifest, [kind |-> "Compaction",
                                           inputs |-> compactor["worker"].task,
                                           output |-> 0, completed |-> FALSE,
                                           failed |-> FALSE])
          /\ compactor' = [compactor EXCEPT !["worker"].pc = "compact",
                                            !["worker"].operation_id = Len(manifest) + 1]
       \/ /\ manifest' = manifest
          /\ compactor' = [compactor EXCEPT !["worker"].pc = "compact",
                                            !["worker"].operation_id = Len(manifest)]
    /\ UNCHANGED <<engine, sstables, files, content, next_sstable_id, obsolete,
                   reader, registry_history, n_flushes, n_crashes>>

\* CompactionThread::start_compactions, line 93: Manifest::append_operation
\* returns Ok(operation_id) or Err; the worker goes on to compact either way
worker_append_operation ==
    /\ engine = "up"
    /\ compactor["worker"].pc = "append"
    /\ \/ /\ manifest_writable
          /\ manifest' = Append(manifest, [kind |-> "Compaction",
                                           inputs |-> compactor["worker"].task,
                                           output |-> 0, completed |-> FALSE,
                                           failed |-> FALSE])
          /\ compactor' = [compactor EXCEPT !["worker"].pc = "compact",
                                            !["worker"].operation_id = Len(manifest) + 1]
       \/ /\ manifest' = manifest
          /\ compactor' = [compactor EXCEPT !["worker"].pc = "compact",
                                            !["worker"].operation_id = 0]
    /\ UNCHANGED <<engine, sstables, files, content, next_sstable_id, obsolete,
                   reader, registry_history, n_flushes, n_crashes>>

\* Compaction::compact called directly with a task
direct_compact ==
    /\ engine = "up"
    /\ compactor["caller"].pc = "idle"
    /\ create_compaction_task # {}
    /\ compactor' = [compactor EXCEPT !["caller"] =
                        [IdleCompactor("compact") EXCEPT !.task = create_compaction_task]]
    /\ UNCHANGED <<engine, manifest, sstables, files, content, next_sstable_id, obsolete,
                   reader, registry_history, n_flushes, n_crashes>>

\* execution of a task, first part: the inputs are merged into a new SSTable
\* file; an I/O error ends the execution with Err
compact_write_outputs(p) ==
    /\ engine = "up"
    /\ compactor[p].pc = "compact"
    /\ \/ /\ compactor[p].task \subseteq files
          /\ next_sstable_id <= MaxSst
          /\ next_sstable_id' = next_sstable_id + 1
          /\ files' = files \cup {next_sstable_id}
          /\ content' = [content EXCEPT ![next_sstable_id] =
                            UNION {content[f] : f \in compactor[p].task}]
          /\ manifest' = IF compactor[p].operation_id = 0 THEN manifest
                         ELSE [manifest EXCEPT ![compactor[p].operation_id].output =
                                                    next_sstable_id]
          /\ compactor' = [compactor EXCEPT ![p].pc = "swap",
                                            ![p].output = next_sstable_id]
       \/ /\ compactor' = [compactor EXCEPT ![p].pc = "returned", ![p].result = "Err"]
          /\ UNCHANGED <<next_sstable_id, files, content, manifest>>
    /\ UNCHANGED <<engine, sstables, obsolete, reader, registry_history, n_flushes, n_crashes>>

\* the registry after SSTables::apply_compaction(input_ids, output)
apply_compaction(r, inputs, output) ==
    [l0 |-> r.l0 \ inputs, l1 |-> (r.l1 \ inputs) \cup {output}]

\* execution of a task, second part: the atomic swap in the registry under
\* exclusive access; the inputs become obsolete
compact_swap(p) ==
    /\ engine = "up"
    /\ compactor[p].pc = "swap"
    /\ lock_exclusive_free
    /\ sstables' = apply_compaction(sstables, compactor[p].task, compactor[p].output)
    /\ obsolete' = obsolete \cup (compactor[p].task \cap registry_files(sstables))
    /\ registry_history' = IF reader.pc = "idle" THEN registry_history
                           ELSE registry_history \cup {registry_files(sstables')}
    /\ compactor' = [compactor EXCEPT ![p].pc = "returned", ![p].result = "Ok"]
    /\ UNCHANGED <<engine, manifest, files, content, next_sstable_id, reader,
                   n_flushes, n_crashes>>

\* an obsolete SSTable is deleted from disk once no reader references it
delete_obsolete_sstable(f) ==
    /\ engine = "up"
    /\ f \in obsolete
    /\ f \notin reader.view
    /\ obsolete' = obsolete \ {f}
    /\ files' = files \ {f}
    /\ UNCHANGED <<engine, manifest, sstables, content, next_sstable_id, compactor,
                   reader, registry_history, n_flushes, n_crashes>>

\* start_compactions leaving its loop when compact returned Err
worker_mark_as_completed_stopping_on_error ==
    /\ engine = "up"
    /\ compactor["worker"].pc = "returned"
    /\ compactor' = [compactor EXCEPT !["worker"] =
                        IdleCompactor(IF compactor["worker"].result = "Err"
                                      THEN "stopped" ELSE "sleep")]
    /\ UNCHANGED <<engine, manifest, sstables, files, content, next_sstable_id, obsolete,
                   reader, registry_history, n_flushes, n_crashes>>

\* CompactionThread::start_compactions, lines 95-101: an Err of compact is
\* logged; then, when append_operation had returned Ok(operation_id),
\* Manifest::mark_as_completed(operation_id) is called and its result dropped
worker_mark_as_completed ==
    /\ engine = "up"
    /\ compactor["worker"].pc = "returned"
    /\ LET id == compactor["worker"].operation_id
           failed == compactor["worker"].result = "Err"
       IN IF id = 0
          THEN manifest' = manifest
          ELSE \/ manifest' = [manifest EXCEPT ![id].completed = TRUE, ![id].failed = failed]
               \/ manifest' = [manifest EXCEPT ![id].failed = failed]
    /\ compactor' = [compactor EXCEPT !["worker"] = IdleCompactor("sleep")]
    /\ UNCHANGED <<engine, sstables, files, content, next_sstable_id, obsolete,
                   reader, registry_history, n_flushes, n_crashes>>

\* Compaction::compact returns to its direct caller
direct_compact_return ==
    /\ engine = "up"
    /\ compactor["caller"].pc = "returned"
    /\ compactor' = [compactor EXCEPT !["caller"] = IdleCompactor("idle")]
    /\ UNCHANGED <<engine, manifest, sstables, files, content, next_sstable_id, obsolete,
                   reader, registry_history, n_flushes, n_crashes>>

\* a foreground read takes shared access to the registry ...
reader_lock ==
    /\ engine = "up"
    /\ reader.pc = "idle"
    /\ reader' = [pc |-> "locked_l0", view |-> {}]
    /\ registry_history' = {registry_files(sstables)}
    /\ UNCHANGED <<engine, manifest, sstables, files, content, next_sstable_id, obsolete,
                   compactor, n_flushes, n_crashes>>

\* ... collects the SSTables of level 0 ...
reader_read_l0 ==
    /\ engine = "up"
    /\ reader.pc = "locked_l0"
    /\ reader' = [pc |-> "locked_l1", view |-> sstables.l0]
    /\ UNCHANGED <<engine, manifest, sstables, files, content, next_sstable_id, obsolete,
                   compactor, registry_history, n_flushes, n_crashes>>

\* ... then those of level 1, and releases the lock; its iterator keeps
\* references to the SSTables of its view
reader_read_l1 ==
    /\ engine = "up"
    /\ reader.pc = "locked_l1"
    /\ reader' = [pc |-> "done", view |-> reader.view \cup sstables.l1]
    /\ UNCHANGED <<engine, manifest, sstables, files, content, next_sstable_id, obsolete,
                   compactor, registry_history, n_flushes, n_crashes>>

\* the reader's iterator is dropped
reader_drop ==
    /\ engine = "up"
    /\ reader.pc = "done"
    /\ reader' = [pc |-> "idle", view |-> {}]
    /\ registry_history' = {}
    /\ UNCHANGED <<engine, manifest, sstables, files, content, next_sstable_id, obsolete,
                   compactor, n_flushes, n_crashes>>

\* the process is killed: everything in memory is lost, the disk stays
kill_process ==
    /\ engine = "up"
    /\ n_crashes < MaxCrash
    /\ n_crashes' = n_crashes + 1
    /\ engine' = "down"
    /\ sstables' = [l0 |-> {}, l1 |-> {}]
    /\ obsolete' = {}
    /\ compactor' = [p \in Compactors |-> IdleCompactor("down")]
    /\ reader' = [pc |-> "idle", view |-> {}]
    /\ registry_history' = {}
    /\ UNCHANGED <<manifest, files, content, next_sstable_id, n_flushes>>

\* the registry rebuilt from the completed operations of the manifest
RECURSIVE replay_manifest(_, _)
replay_manifest(ops, r) ==
    IF ops = << >> THEN r
    ELSE LET op == Head(ops)
             r2 == IF ~op.completed THEN r
                   ELSE IF op.kind = "MemtableFlush"
                        THEN [r EXCEPT !.l0 = @ \cup {op.output}]
                        ELSE [l0 |-> r.l0 \ op.inputs,
                              l1 |-> (r.l1 \ op.inputs) \cup ({op.output} \ {0})]
         IN replay_manifest(Tail(ops), r2)

incomplete_compactions ==
    {i \in 1..Len(manifest) : manifest[i].kind = "Compaction" /\ ~manifest[i].completed}

\* storage::new, lines 42-43: Keyspaces::recover_from_manifest deletes the
\* outputs of the incomplete operations, leaves their inputs in place and
\* rebuilds the registry from the completed ones; then
\* start_keyspaces_compaction_threads starts the worker
recover_from_manifest ==
    /\ engine = "down"
    /\ engine' = "up"
    /\ sstables' = replay_manifest(manifest, [l0 |-> {}, l1 |-> {}])
    /\ files' = files \cap registry_files(sstables')
    /\ compactor' = [p \in Compactors |-> IdleCompactor(IF p = "worker" THEN "sleep" ELSE "idle")]
    /\ UNCHANGED <<manifest, content, next_sstable_id, obsolete, reader, registry_history,
                   n_flushes, n_crashes>>

CompactionInit ==
    /\ engine = "up"
    /\ manifest = << >>
    /\ sstables = [l0 |-> {}, l1 |-> {}]
    /\ files = {}
    /\ content = [f \in SstIds |-> {}]
    /\ next_sstable_id = 1
    /\ obsolete = {}
    /\ compactor = [p \in Compactors |-> IdleCompactor(IF p = "worker" THEN "sleep" ELSE "idle")]
    /\ reader = [pc |-> "idle", view |-> {}]
    /\ registry_history = {}
    /\ n_flushes = 0
    /\ n_crashes = 0

CompactionNext ==
    \/ memtable_flush
    \/ worker_create_compaction_task
    \/ worker_append_operation
    \/ direct_compact
    \/ \E p \in Compactors : compact_write_outputs(p)
    \/ \E p \in Compactors : compact_swap(p)
    \/ \E f \in SstIds : delete_obsolete_sstable(f)
    \/ worker_mark_as_completed
    \/ direct_compact_return
    \/ reader_lock
    \/ reader_read_l0
    \/ reader_read_l1
    \/ reader_drop
    \/ kill_process
    \/ recover_from_manifest

----------------------------------------------------------------------------
\* StorageEngineItertor (utils/storage_engine_iterator.rs)

MaxLen == 3

MaxStandalone == 2

\* the value for which the merger of the tests answers DiscardPrevious
Discard == 10

IterKeys == {1, 2}

IterTxns == {1, 2, 3}

IterValues == {1, Discard}

NoSeek == 0

SeekKeys == {1, 2, 3}

Entry == [key : IterKeys, txn_id : IterTxns, value : IterValues, tombstone : {FALSE}]

\* inner iterators of the merger scenario (versions 1, 1, DISCARD, 2 of one
\* key) and of test iterator_merger_fn (three versions of value 1)
MergerExamples ==
    { << [key |-> 1, txn_id |-> 1, value |-> 1, tombstone |-> FALSE],
         [key |-> 1, txn_id |-> 2, value |-> 1, tombstone |-> FALSE],
         [key |-> 1, txn_id |-> 3, value |-> Discard, tombstone |-> FALSE],
         [key |-> 1, txn_id |-> 4, value |-> 2, tombstone |-> FALSE],
         [key |-> 2, txn_id |-> 1, value |-> 1, tombstone |-> FALSE] >>,
      << [key |-> 1, txn_id |-> 1, value |-> 1, tombstone |-> FALSE],
         [key |-> 1, txn_id |-> 3, value |-> 1, tombstone |-> FALSE],
         [key |-> 1, txn_id |-> 4, value |-> 1, tombstone |-> FALSE],
         [key |-> 2, txn_id |-> 1, value |-> 1, tombstone |-> FALSE] >> }

\* inner iterators over versions that are all visible to the reader, the
\* newest version of key 1 being a tombstone (a deleted key)
TombstoneExamples ==
    { << [key |-> 1, txn_id |-> 1, value |-> 1, tombstone |-> FALSE],
         [key |-> 1, txn_id |-> 2, value |-> 1, tombstone |-> TRUE],
         [key |-> 2, txn_id |-> 1, value |-> 1, tombstone |-> FALSE] >>,
      << [key |-> 1, txn_id |-> 2, value |-> 1, tombstone |-> TRUE],
         [key |-> 2, txn_id |-> 1, value |-> 1, tombstone |-> FALSE] >> }

\* versioned keys in the order of the inner iterators of the tests
\* (iterator_no_merger_fn: alberto 1 before alberto 3): user key, then txn_id
key_lt(e1, e2) ==
    \/ e1.key < e2.key
    \/ (e1.key = e2.key /\ e1.txn_id < e2.txn_id)

\* the sequences of at most n entries in that order, without duplicates
RECURSIVE SortedEntries(_)
SortedEntries(n) ==
    IF n = 0 THEN {<< >>}
    ELSE LET shorter == SortedEntries(n - 1) IN
         shorter \cup
         {Append(q, e) : <<q, e>> \in
             {x \in shorter \X Entry :
                 /\ Len(x[1]) = n - 1
                 /\ (x[1] = << >> \/ key_lt(x[1][Len(x[1])], x[2]))}}

InnerIterators == SortedEntries(MaxLen)

\* inner iterator (the StorageIterator contract): has_next at position pos
inner_has_next(pos) == pos < Len(inner)

\* the merger of the tests (merge_values): sum, or DiscardPrevious when the
\* next value is the sentinel; one byte wide
merge_values(a, b) ==
    IF b # Discard THEN [discard |-> FALSE, value |-> (a + b) % 256]
    ELSE [discard |-> TRUE, value |-> b]

\* the loop of merge_entry_values keeping the key of the first entry popped
RECURSIVE merge_fold_keeping_first_key(_, _)
merge_fold_keeping_first_key(prev, entries) ==
    IF entries = << >> THEN prev
    ELSE LET next_entry == Head(entries)
             m == merge_values(prev.value, next_entry.value)
         IN merge_fold_keeping_first_key(
                [prev EXCEPT !.value = IF m.discard THEN next_entry.value ELSE m.value],
                Tail(entries))

\* StorageEngineItertor::merge_entry_values: the loop popping the entries
RECURSIVE merge_fold(_, _)
merge_fold(prev, entries) ==
    IF entries = << >> THEN prev
    ELSE LET next_entry == Head(entries)
             m == merge_values(prev.value, next_entry.value)
         IN merge_fold([next_entry EXCEPT !.value = IF m.discard THEN next_entry.value
                                                    ELSE m.value],
                       Tail(entries))

\* StorageEngineItertor::merge_entry_values
merge_entry_values(merger, entries) ==
    IF ~merger \/ Len(entries) <= 1 THEN entries
    ELSE << merge_fold(Head(entries), Tail(entries)) >>

\* the loop of find_entries (lines 84-96) from inner position pos: has_next
\* was read once before the loop and is not read again
RECURSIVE collect_versions(_, _, _)
collect_versions(pos, current_key, entries) ==
    IF pos = Len(inner)
    THEN [end |-> "past_end", pos |-> pos, entries |-> entries]
    ELSE IF inner[pos + 1].key = current_key
         THEN collect_versions(pos + 1, current_key, Append(entries, inner[pos + 1]))
         ELSE [end |-> "break", pos |-> pos + 1, entries |-> entries]

\* StorageEngineItertor::find_entries on iterator state st. Outcomes: "ok";
\* "panic" (key() of an inner iterator that was never positioned);
\* "past_end" (the loop went on calling next() on the exhausted inner iterator)
find_entries(st) ==
    IF st.inner_pos = 0 THEN [outcome |-> "panic", st |-> st]
    ELSE LET first == inner[st.inner_pos]
             has_next == inner_has_next(st.inner_pos)
             c == IF has_next
                  THEN collect_versions(st.inner_pos, first.key,
                                        Append(st.entries_to_return, first))
                  ELSE [end |-> "break", pos |-> st.inner_pos,
                        entries |-> Append(st.entries_to_return, first)]
         IN IF c.end = "past_end" THEN [outcome |-> "past_end", st |-> st]
            ELSE [outcome |-> "ok",
                  st |-> [st EXCEPT !.inner_pos = c.pos,
                                    !.last_entry_returned = IF has_next THEN @ ELSE TRUE,
                                    !.entries_to_return =
                                        merge_entry_values(st.merger, c.entries)]]

\* StorageEngineItertor::do_do_next
do_do_next(st) ==
    IF st.last_entry_returned THEN [outcome |-> "false", st |-> st]
    ELSE LET f == IF st.entries_to_return = << >> THEN find_entries(st)
                  ELSE [outcome |-> "ok", st |-> st]
         IN IF f.outcome # "ok" THEN f
            ELSE [outcome |-> "true",
                  st |-> [f.st EXCEPT !.current = << Head(f.st.entries_to_return) >>,
                                      !.entries_to_return = Tail(f.st.entries_to_return)]]

\* the seek bound test of next (lines 154-158)
is_inbound(st) ==
    IF st.is_seeked_key_inclusive THEN st.current[1].key >= st.seeked_key
    ELSE st.current[1].key > st.seeked_key

\* StorageEngineItertor::next (the while loop over do_do_next)
RECURSIVE next(_)
next(st) ==
    LET r == do_do_next(st) IN
    IF r.outcome # "true" THEN r
    ELSE IF r.st.seeked_key # NoSeek
         THEN IF is_inbound(r.st)
              THEN [outcome |-> "true", st |-> [r.st EXCEPT !.seeked_key = NoSeek]]
              ELSE next(r.st)
         ELSE r

\* StorageEngineItertor::create and create_seeked_key: the inner iterator is
\* advanced once when it has an entry (seeked_at_create is history: the
\* seeked_key the iterator was built with)
create(merger, seeked_key, inclusive) ==
    [inner_pos |-> IF Len(inner) > 0 THEN 1 ELSE 0,
     entries_to_return |-> << >>,
     current |-> << >>,
     transaction_manager |-> FALSE,
     transaction |-> 0,
     seeked_key |-> seeked_key,
     is_seeked_key_inclusive |-> inclusive,
     last_entry_returned |-> FALSE,
     merger |-> merger,
     seeked_at_create |-> seeked_key,
     n_standalone |-> 0]

\* StorageEngineItertor::set_transaction_standalone
set_transaction_standalone(transaction) ==
    /\ it_state = "alive"
    /\ it.n_standalone < MaxStandalone
    /\ it' = [it EXCEPT !.transaction_manager = TRUE, !.transaction = transaction,
                        !.n_standalone = @ + 1]
    /\ UNCHANGED <<inner, it_state, iter_commits, yielded, last_result>>

\* a call of next(): it returns true or false, or it panics, or (past the
\* end of the inner iterator) it loops on, which ends in a panic or never
iter_next ==
    /\ it_state = "alive"
    /\ LET r == next(it) IN
       \/ /\ r.outcome = "true"
          /\ it' = r.st
          /\ yielded' = Append(yielded, r.st.current[1])
          /\ it_state' = "alive"
       \/ /\ r.outcome = "false"
          /\ it' = r.st
          /\ UNCHANGED <<yielded, it_state>>
       \/ /\ r.outcome = "panic"
          /\ it_state' = "panicked"
          /\ UNCHANGED <<it, yielded>>
       \/ /\ r.outcome = "past_end"
          /\ it_state' \in {"panicked", "diverged"}
          /\ UNCHANGED <<it, yielded>>
       /\ last_result' = [op |-> "next", outcome |-> r.outcome,
                          first_next |-> IF last_result.first_next = "none" THEN r.outcome
                                         ELSE last_result.first_next]
    /\ UNCHANGED <<inner, iter_commits>>

\* StorageEngineItertor::has_next is todo!(): the call panics
iter_has_next ==
    /\ it_state = "alive"
    /\ it_state' = "panicked"
    /\ last_result' = [last_result EXCEPT !.op = "has_next", !.outcome = "panic"]
    /\ UNCHANGED <<inner, it, iter_commits, yielded>>

\* a Drop that leaves the transaction open
iter_drop_without_commit ==
    /\ it_state \in {"alive", "panicked"}
    /\ it_state' = "dropped"
    /\ UNCHANGED <<inner, it, iter_commits, yielded, last_result>>

\* Drop for StorageEngineItertor: at the end of its scope or while a panic unwinds
iter_drop ==
    /\ it_state \in {"alive", "panicked"}
    /\ it_state' = "dropped"
    /\ iter_commits' = IF it.transaction_manager THEN Append(iter_commits, it.transaction)
                       ELSE iter_commits
    /\ UNCHANGED <<inner, it, yielded, last_result>>

\* no call was made yet
NoCall == [op |-> "none", outcome |-> "none", first_next |-> "none"]

\* no iterator exists
IterIdle ==
    /\ inner = << >>
    /\ it = create(FALSE, NoSeek, FALSE)
    /\ it_state = "dropped"
    /\ iter_commits = << >>
    /\ yielded = << >>
    /\ last_result = NoCall

\* the bytes of a tombstone mean nothing to the merger of the tests: the
\* inner iterators with a tombstone are read without a merger
IterInit ==
    /\ \/ /\ inner \in InnerIterators \cup MergerExamples
          /\ \E merger \in BOOLEAN :
              \/ it = create(merger, NoSeek, FALSE)
              \/ \E k \in SeekKeys, inclusive \in BOOLEAN : it = create(merger, k, inclusive)
       \/ /\ inner \in TombstoneExamples
          /\ it = create(FALSE, NoSeek, FALSE)
    /\ it_state = "alive"
    /\ iter_commits = << >>
    /\ yielded = << >>
    /\ last_result = NoCall

IterNext ==
    \/ \E t \in IterTxns : set_transaction_standalone(t)
    \/ iter_next
    \/ iter_has_next
    \/ iter_drop

----------------------------------------------------------------------------
\* TwoMergeIterator (utils/two_merge_iterators.rs)

MaxChildLen == 3

ChildKeys == {1, 2, 3, 4, 5}

\* the strictly ascending key sequences of at most n keys
RECURSIVE AscendingKeys(_)
AscendingKeys(n) ==
    IF n = 0 THEN {<< >>}
    ELSE LET shorter == AscendingKeys(n - 1) IN
         shorter \cup
         {Append(x[1], x[2]) : x \in
             {y \in shorter \X ChildKeys :
                 /\ Len(y[1]) = n - 1
                 /\ (y[1] = << >> \/ y[1][Len(y[1])] < y[2])}}

\* the children of test two_merge_iterator as the scenario means them:
\* a = {a, b, d}, b = {a, c, d, f}
ScenarioChildren == << <<1, 2, 4>>, <<1, 3, 4, 5>> >>

\* child iterator (the StorageIterator contract as the tests use it):
\* position 0 is before the first entry; next() steps while an entry
\* follows, has_next() tells whether one follows
child_has_next(child, pos) == pos < Len(child)

child_next(child, pos) == IF pos < Len(child) THEN pos + 1 ELSE pos

\* TwoMergeIterator::choose_a
choose_a(a_pos, b_pos) ==
    IF ~child_has_next(child_a, a_pos) THEN FALSE
    ELSE IF ~child_has_next(child_b, b_pos) THEN TRUE
    ELSE child_a[a_pos] > child_b[b_pos]

\* TwoMergeIterator::skip_b_duplicates: the position of b after the loop
RECURSIVE skip_b_duplicates(_, _)
skip_b_duplicates(a_pos, b_pos) ==
    IF /\ child_has_next(child_a, a_pos)
       /\ child_has_next(child_b, b_pos)
       /\ child_a[a_pos] = child_b[b_pos]
    THEN skip_b_duplicates(a_pos, child_next(child_b, b_pos))
    ELSE b_pos

\* TwoMergeIterator::new
new ==
    LET a_pos == child_next(child_a, 0)
        b_pos == child_next(child_b, 0)
    IN [a_pos |-> a_pos, b_pos |-> b_pos,
        choose_a |-> choose_a(a_pos, b_pos),
        current_value_a |-> choose_a(a_pos, b_pos),
        first_iteration |-> TRUE]

\* TwoMergeIterator::has_next
two_merge_has_next(st) ==
    child_has_next(child_a, st.a_pos) \/ child_has_next(child_b, st.b_pos)

\* TwoMergeIterator::next: the value returned and the iterator afterwards
two_merge_next_result(st) ==
    IF st.first_iteration
    THEN [advanced |-> two_merge_has_next(st), st |-> [st EXCEPT !.first_iteration = FALSE]]
    ELSE LET a_pos == IF st.choose_a THEN child_next(child_a, st.a_pos) ELSE st.a_pos
             b_moved == IF st.choose_a THEN st.b_pos ELSE child_next(child_b, st.b_pos)
             advanced == IF st.choose_a THEN child_has_next(child_a, st.a_pos)
                         ELSE child_has_next(child_b, st.b_pos)
             b_pos == skip_b_duplicates(a_pos, b_moved)
         IN [advanced |-> advanced,
             st |-> [st EXCEPT !.a_pos = a_pos, !.b_pos = b_pos,
                               !.current_value_a = st.choose_a,
                               !.choose_a = choose_a(a_pos, b_pos)]]

\* TwoMergeIterator::key: the child it reads and that child's position
two_merge_key_pos(st) == IF st.current_value_a THEN st.a_pos ELSE st.b_pos

two_merge_key(st) ==
    IF st.current_value_a THEN child_a[st.a_pos] ELSE child_b[st.b_pos]

\* a caller's step: next(), then key() and value() when it returned true;
\* key() of a child that was never positioned panics
two_merge_next ==
    /\ two_merge_state = "alive"
    /\ LET r == two_merge_next_result(two_merge) IN
       /\ two_merge' = r.st
       /\ IF ~r.advanced
          THEN two_merge_state' = "finished" /\ UNCHANGED exposed
          ELSE IF two_merge_key_pos(r.st) = 0
               THEN two_merge_state' = "panicked" /\ UNCHANGED exposed
               ELSE /\ two_merge_state' = "alive"
                    /\ exposed' = Append(exposed,
                                         [key |-> two_merge_key(r.st),
                                          from |-> IF r.st.current_value_a THEN "a" ELSE "b"])
    /\ UNCHANGED <<child_a, child_b>>

\* no two-way merge iterator exists
TwoMergeIdle ==
    /\ child_a = << >>
    /\ child_b = << >>
    /\ two_merge = new
    /\ two_merge_state = "finished"
    /\ exposed = << >>

TwoMergeInit ==
    /\ \/ /\ child_a \in AscendingKeys(MaxChildLen)
          /\ child_b \in AscendingKeys(MaxChildLen)
       \/ /\ child_a = ScenarioChildren[1]
          /\ child_b = ScenarioChildren[2]
    /\ two_merge = new
    /\ two_merge_state = "alive"
    /\ exposed = << >>

TwoMergeNext == two_merge_next

----------------------------------------------------------------------------
\* Specifications

Init == StorageInit /\ CompactionInit /\ IterIdle /\ TwoMergeIdle /\ StartIdle /\ IndexInit

SpecStorage ==
    Init /\ [][StorageNext /\ UNCHANGED <<keyspaces, compaction_vars, iter_vars, two_merge_vars, start_vars, index_vars>>]_vars

SpecCompaction ==
    Init /\ [][CompactionNext /\ UNCHANGED <<storage_vars, keyspaces, iter_vars, two_merge_vars, start_vars, index_vars>>]_vars

\* the statements of the worker's loop outside the execution of a task
worker_loop ==
    (worker_create_compaction_task \/ worker_append_operation \/ worker_mark_as_completed)
    /\ UNCHANGED <<storage_vars, keyspaces, iter_vars, two_merge_vars, start_vars, index_vars>>

\* the worker thread is scheduled: its sleep ends and its manifest calls return
SpecCompactionFair == SpecCompaction /\ WF_vars(worker_loop)

\* write_batch and standalone reads while keyspaces are created
SpecBatch ==
    Init /\ [][BatchNext /\ UNCHANGED <<compaction_vars, iter_vars, two_merge_vars, start_vars, index_vars>>]_vars

\* a fresh engine and one iterator just created
InitIter == StorageInit /\ CompactionInit /\ IterInit /\ TwoMergeIdle /\ StartIdle /\ IndexInit

SpecIter ==
    InitIter /\ [][IterNext /\ UNCHANGED <<storage_vars, keyspaces, compaction_vars, two_merge_vars, start_vars, index_vars>>]_vars

\* a fresh engine and one two-way merge iterator just created
InitTwoMerge == StorageInit /\ CompactionInit /\ IterIdle /\ TwoMergeInit /\ StartIdle /\ IndexInit

\* the process restarts: storage::new over a recovered log and recovered keyspaces
InitStart == StartInit /\ CompactionInit /\ IterIdle /\ TwoMergeIdle /\ IndexInit

SpecStart ==
    InitStart /\ [][StartNext /\ UNCHANGED <<keyspaces, compaction_vars, iter_vars, two_merge_vars, index_vars>>]_vars

\* a fresh engine and the secondary indexes of one table
SpecIndex ==
    Init /\ [][IndexNext /\ UNCHANGED <<storage_vars, keyspaces, compaction_vars, iter_vars, two_merge_vars, start_vars>>]_vars

SpecTwoMerge ==
    InitTwoMerge /\ [][TwoMergeNext /\ UNCHANGED <<storage_vars, keyspaces, compaction_vars, iter_vars, start_vars, index_vars>>]_vars

----------------------------------------------------------------------------
\* Properties of the Storage facade

\* the last call that returned was a successful read by a SnapshotIsolation transaction
LastCallIsSnapshotRead ==
    /\ last_call.op \in {"get", "get_with_transaction"}
    /\ last_call.ok
    /\ transactions[last_call.txn_id].isolation_level = SnapshotIsolation

SnapshotIsolationReads ==
    (LastCallIsSnapshotRead /\ last_call.writer # 0) =>
        \/ last_call.writer = last_call.txn_id
        \/ last_call.writer \in transactions[last_call.txn_id].committed_at_start

\* C2 witness: a writer of k committed while the reader was running, and the
\* reader's get of k returned nothing
SnapshotIsolationWitness ==
    /\ LastCallIsSnapshotRead
    /\ last_call.op = "get_with_transaction"
    /\ last_call.value = NoEntry
    /\ \E w \in TxnIds :
        /\ transactions[w].commit_called
        /\ txn_log[w] = "committed"
        /\ w \notin transactions[last_call.txn_id].committed_at_start
        /\ memtable[last_call.keyspace_id, last_call.key, w] \in Values

\* C9 (as claimed): the transaction started by get, set, delete, write_batch
\* or scan_all on the caller's behalf is no longer active once the call has
\* returned (for scan_all: once the call failed or its iterator was dropped)
StandaloneTransactionsEnd ==
    (\/ last_call.op \in {"get", "set", "delete", "write_batch", "drop_scan_iterator"}
     \/ (last_call.op = "scan_all" /\ ~last_call.ok))
        => last_call.txn_id \notin active_transactions

----------------------------------------------------------------------------
\* Properties of compaction and recovery

\* the entries of all completed memtable flushes
flushed_entries ==
    UNION {content[manifest[i].output] :
            i \in {j \in 1..Len(manifest) : manifest[j].kind = "MemtableFlush"}}

\* C4 (as claimed): when the process was killed after a compaction operation
\* was appended to the manifest and before its completion record, then after
\* the restart the keyspace holds all the inputs of that compaction and none
\* of its outputs, and a scan yields the pre-compaction content
CompactionCrashRecovery ==
    [][(engine = "down" /\ engine' = "up") =>
        \A i \in incomplete_compactions :
            /\ manifest[i].inputs \subseteq registry_files(sstables')
            /\ manifest[i].inputs \subseteq files'
            /\ manifest[i].output \notin files' \cup registry_files(sstables')
            /\ scan_content(sstables', files') = flushed_entries]_vars

\* C5: a reader that built its view of the SSTables holds a file set the
\* registry actually held while the view was built (the set before or the
\* set after each swap), never a mixture of inputs and outputs
AtomicSwapVisibility ==
    reader.pc = "done" => reader.view \in registry_history

\* C5 witness: the reader holds the complete pre-swap set of a compaction
\* whose swap has been done since the reader began
AtomicSwapVisibilityWitness ==
    /\ reader.pc = "done"
    /\ Cardinality(registry_history) >= 2
    /\ \E p \in Compactors :
        /\ compactor[p].result = "Ok"
        /\ compactor[p].task # {}
        /\ compactor[p].task \subseteq reader.view
        /\ compactor[p].output \notin reader.view

\* C6 (as claimed): never two compaction tasks executing on the keyspace
OneCompactionAtATime ==
    ~(executing("worker") /\ executing("caller"))

\* C7 (as claimed): the worker executes a task only after its operation was
\* appended to the manifest and an operation id obtained
CompactionOnlyAfterAppend ==
    executing("worker") => compactor["worker"].operation_id # 0

\* C8 (as claimed): an operation whose execution returned an error gets no
\* completion record
FailedCompactionStaysIncomplete ==
    \A i \in 1..Len(manifest) : manifest[i].failed => ~manifest[i].completed

----------------------------------------------------------------------------
\* Properties of the StorageEngineItertor

\* C10: an iterator marked standalone commits its transaction exactly once
\* when it is dropped (and not before), wherever the iteration stopped; an
\* iterator never marked standalone commits nothing
StandaloneCommitOnDrop ==
    /\ it_state # "dropped" => iter_commits = << >>
    /\ (it_state = "dropped" /\ it.transaction_manager)
           => iter_commits = << it.transaction >>
    /\ (it_state = "dropped" /\ ~it.transaction_manager)
           => iter_commits = << >>

\* C10 witness: a standalone iterator dropped after a partial iteration
StandaloneCommitOnDropWitness ==
    /\ it_state = "dropped"
    /\ it.transaction_manager
    /\ Len(yielded) >= 1
    /\ ~it.last_entry_returned
    /\ iter_commits # << >>

\* the versions of user key k held by the inner iterator, oldest first
versions_of(k) == SelectSeq(inner, LAMBDA e : e.key = k)

\* C11: over its whole life the iterator yields at most one entry per
\* user_key, with or without a merger
OneEntryPerUserKey ==
    \A i, j \in 1..Len(yielded) : i # j => yielded[i].key # yielded[j].key

\* C12: the iterator collapses the versions of a key by MVCC visibility; with
\* every version of the inner iterator visible to the reader, the visible
\* version of a key is its newest one, so nothing is yielded for a key whose
\* newest version is a tombstone, and no tombstone is yielded
TombstonedKeysAreSkipped ==
    \A i \in 1..Len(yielded) :
        LET vs == versions_of(yielded[i].key) IN
        /\ ~yielded[i].tombstone
        /\ ~vs[Len(vs)].tombstone

\* left fold of the merger over values vs, by recursion on the prefix
RECURSIVE LeftFold(_)
LeftFold(vs) ==
    IF Len(vs) = 1 THEN vs[1]
    ELSE LET acc == LeftFold(SubSeq(vs, 1, Len(vs) - 1))
             m == merge_values(acc, vs[Len(vs)])
         IN IF m.discard THEN vs[Len(vs)] ELSE m.value

\* the values of the versions of user key k, oldest first
values_of(k) == [i \in 1..Len(versions_of(k)) |-> versions_of(k)[i].value]

\* C13: with a merger the value yielded for a user_key is the left fold of
\* its versions from oldest to newest, DiscardPrevious replacing the
\* accumulator by next; versions 1, 1, DISCARD, 2 read back as 2 and three
\* versions of value 1 read back as 3
MergedValueIsLeftFold ==
    it.merger =>
        \A i \in 1..Len(yielded) :
            LET vs == values_of(yielded[i].key) IN
            /\ yielded[i].value = LeftFold(vs)
            /\ vs = <<1, 1, Discard, 2>> => yielded[i].value = 2
            /\ vs = <<1, 1, 1>> => yielded[i].value = 3

\* q is a prefix of r
is_prefix(q, r) == Len(q) <= Len(r) /\ q = SubSeq(r, 1, Len(q))

\* a call of next() broke off: it panicked or never returned
next_broke_off == last_result.op = "next" /\ last_result.outcome \in {"panic", "past_end"}

\* next() reported the end of the iteration
next_reported_end == last_result.op = "next" /\ last_result.outcome = "false"

\* C14: without a merger (and without a seek) the iterator yields exactly the
\* entries of the inner iterator: in its order, values unchanged, none
\* repeated, and none dropped: every call of next() returns, and when it
\* returns false every entry has been yielded
NoMergerYieldsInner ==
    (~it.merger /\ it.seeked_at_create = NoSeek) =>
        /\ is_prefix(yielded, inner)
        /\ ~next_broke_off
        /\ next_reported_end => yielded = inner

\* the bound of the seek the iterator was built with
seek_inbound(e) ==
    IF it.is_seeked_key_inclusive THEN e.key >= it.seeked_at_create
    ELSE e.key > it.seeked_at_create

\* C17: an iterator built by create_seeked_key yields no entry out of bound,
\* yields (without a merger) every entry of the inner iterator from the first
\* entry in bound on, and returns false from its first next() when no entry
\* is in bound
SeekedIteratorBounds ==
    it.seeked_at_create # NoSeek =>
        LET expected == SelectSeq(inner, seek_inbound) IN
        /\ \A i \in 1..Len(yielded) : seek_inbound(yielded[i])
        /\ ~it.merger =>
              /\ is_prefix(yielded, expected)
              /\ ~next_broke_off
              /\ next_reported_end => yielded = expected
        /\ (expected = << >> /\ last_result.first_next # "none")
              => last_result.first_next = "false"

\* C18: entries are yielded by ascending user key and, within one user key,
\* by descending txn_id
YieldedNewestVersionFirst ==
    \A i \in 1..(Len(yielded) - 1) :
        \/ yielded[i].key < yielded[i + 1].key
        \/ /\ yielded[i].key = yielded[i + 1].key
           /\ yielded[i].txn_id > yielded[i + 1].txn_id

\* C19: has_next() does not fail, and answers true exactly when a further
\* next() would return true
HasNextAnswers ==
    last_result.op = "has_next" =>
        /\ last_result.outcome \in {"true", "false"}
        /\ it_state = "alive"
        /\ (last_result.outcome = "true") <=> (next(it).outcome = "true")

----------------------------------------------------------------------------
\* Properties of the TwoMergeIterator

\* the keys of a key sequence
keys_of(child) == {child[i] : i \in 1..Len(child)}

\* the ascending sequence of the keys of set S
RECURSIVE ascending(_)
ascending(S) ==
    IF S = {} THEN << >>
    ELSE LET m == CHOOSE x \in S : \A y \in S : x <= y
         IN << m >> \o ascending(S \ {m})

\* the keys the iterator was positioned on, in that order
exposed_keys == [i \in 1..Len(exposed) |-> exposed[i].key]

\* C15: successive next() calls position the iterator on every key of a or
\* b exactly once, in ascending order, also when a child is empty or holds a
\* single entry: the keys exposed so far are the first keys of the ascending
\* union, no key() fails, and when next() returns false all were exposed
TwoMergeYieldsAscendingUnion ==
    LET merged == ascending(keys_of(child_a) \cup keys_of(child_b)) IN
    /\ is_prefix(exposed_keys, merged)
    /\ two_merge_state # "panicked"
    /\ two_merge_state = "finished" => exposed_keys = merged

\* C16: for a key held by both children the entry exposed is a's; b's entry
\* for that key is never exposed
TwoMergePrefersA ==
    \A i \in 1..Len(exposed) :
        exposed[i].key \in keys_of(child_a) \cap keys_of(child_b) => exposed[i].from = "a"

----------------------------------------------------------------------------
\* Properties of rolled-back transactions

\* C20: once rollback_transaction(t) has returned, no read returns a value
\* written by t (every call records itself in last_call, so a read found
\* there ran with the transaction log as it is now)
RolledBackWritesInvisible ==
    (last_call.op \in {"get", "get_with_transaction"} /\ last_call.ok
        /\ last_call.value # NoEntry)
        => last_call.writer \notin rolledback_transactions

----------------------------------------------------------------------------
\* Properties of write_batch and of calls on a missing keyspace

\* the positions of the records of batch b that target (keyspace_id, key)
records_for(b, keyspace_id, key) ==
    {i \in 1..Len(b) : b[i].keyspace_id = keyspace_id /\ b[i].key = key}

\* the entries after every record of b was applied in batch order by
\* transaction t: per key the last record wins
batch_effect(b, t) ==
    [x \in DOMAIN memtable |->
        IF x[3] = t /\ records_for(b, x[1], x[2]) # {}
        THEN b[Max(records_for(b, x[1], x[2]))].value
        ELSE memtable[x]]

\* C21: write_batch starts one SnapshotIsolation transaction per call and
\* applies every Put and Delete of the batch with it, in batch order, also
\* when the records target different keyspaces
WriteBatchAppliesInOrder ==
    [][\A b \in AllBatches :
        write_batch(b) =>
            /\ next_txn_id' = next_txn_id + 1
            /\ transactions'[next_txn_id].isolation_level = SnapshotIsolation
            /\ last_call'.ok <=> (\A i \in 1..Len(b) : b[i].keyspace_id \in keyspaces)
            /\ last_call'.ok => memtable' = batch_effect(b, next_txn_id)]_vars

\* C21 witness: a batch that wrote into two keyspaces has returned Ok
WriteBatchAppliesInOrderWitness ==
    /\ last_call.op = "write_batch"
    /\ last_call.ok
    /\ \E k1, k2 \in keyspaces, key \in Keys :
        /\ k1 # k2
        /\ memtable[k1, key, last_call.txn_id] # NoEntry
        /\ memtable[k2, key, last_call.txn_id] # NoEntry



\* C22: called with a keyspace id that does not exist, get, set, delete and
\* scan_all return an error and leave the shared state as it was: the next
\* transaction id, the transaction log with its active set, and the entries.
MissingKeyspaceLeavesStateUnchanged ==
    [][\A k \in KeyspaceIds \ keyspaces :
        (\/ \E key \in Keys : get(k, key)
         \/ \E key \in Keys, v \in Values : set(k, key, v)
         \/ \E key \in Keys : delete(k, key)
         \/ scan_all(k))
        => /\ ~last_call'.ok
           /\ UNCHANGED <<next_txn_id, txn_log, memtable>>]_vars


\* C23: when storage::new returns, every transaction that was active in the
\* recovered log has been handled exactly once, rolled back if a keyspace
\* holds a write of it and force-aborted otherwise, none of them is active any
\* more, and no other transaction was touched.
ActiveTransactionsHandledOnce ==
    new_pc = "returned" =>
        /\ active_transactions = {}
        /\ \A t \in TxnIds :
              /\ handled[t].rollback + handled[t].failure <= 1
              /\ handled[t].rollback = 1 => has_txn_id_been_written(t) /\ txn_log[t] = "rolledback"
              /\ handled[t].failure = 1 => ~has_txn_id_been_written(t) /\ txn_log[t] = "aborted"
              /\ handled[t] = NotHandled => txn_log[t] \in {"none", "committed", "rolledback"}

\* C23 witness: new returned after rolling back one left-over transaction that
\* had written and force-aborting another that had not
ActiveTransactionsHandledOnceWitness ==
    /\ new_pc = "returned"
    /\ \E t, u \in TxnIds : handled[t].rollback = 1 /\ handled[u].failure = 1

\* C24: compaction workers run only once the left-over transactions have
\* been rolled back and the manifests recovered; no worker iteration runs
\* while new is still rolling back or recovering.
WorkersStartAfterRecovery ==
    /\ compaction_threads_started =>
          /\ manifest_recovered
          /\ incomplete_operations = {}
          /\ to_rollback = {}
          /\ active_transactions = {}
    /\ worker_ran_at \subseteq {"returned"}

\* C24 witness: a worker iteration has run on an engine that restarted with
\* a left-over active transaction to handle
WorkersStartAfterRecoveryWitness ==
    /\ compaction_threads_started
    /\ worker_ran_at # {}
    /\ \E t \in TxnIds : handled[t] # NotHandled

\* C27: on start, a left-over transaction is checked for physical writes and
\* rolled back only after the manifests have been recovered, that is after the
\* files of incomplete flushes and compactions are gone.
RollbackAfterManifestRecovery ==
    \A t \in TxnIds : handled[t] # NotHandled => handled[t].manifest_recovered


\* C25: a failed compaction does not stop the worker. After the execution of
\* the worker's task returned an error, the worker attempts a compaction
\* again, unless the strategy stops proposing a task or the process is killed.
WorkerRetriesAfterFailure ==
    (compactor["worker"].pc = "returned" /\ compactor["worker"].result = "Err")
        ~> \/ compactor["worker"].pc = "compact"
           \/ create_compaction_task = {}
           \/ engine = "down"

\* C25 witness: the worker executes a task again after an earlier task of
\* its own was recorded as failed
WorkerRetriesAfterFailureWitness ==
    /\ compactor["worker"].pc = "compact"
    /\ \E i \in 1..Len(manifest) : manifest[i].kind = "Compaction" /\ manifest[i].failed


\* C26: SecondaryIndexes::scan_all for a column without a secondary index
\* returns IndexNotFound carrying that column id and changes no state; for a
\* column with an index it returns what that index's scan_all returns for the
\* same transaction.
ScanAllOfIndexes ==
    [][\A t \in TxnIds, c \in ColumnIds :
        secondary_indexes_scan_all(t, c) =>
            /\ UNCHANGED <<secondary_index_by_column_id, next_index_keyspace_id,
                           storage_vars, keyspaces>>
            /\ IF secondary_index_by_column_id[c] = NoIndex
               THEN /\ ~index_result'.ok
                    /\ index_result'.error = "IndexNotFound"
                    /\ index_result'.error_column_id = c
               ELSE /\ index_result'.ok = secondary_index_scan_all(secondary_index_by_column_id[c], t).ok
                    /\ index_result'.keyspace_id = secondary_index_by_column_id[c]
                    /\ index_result'.scan_txn_id = t]_vars

\* C26 witness: with a column indexed and another not, a scan of the column
\* without index has answered IndexNotFound
ScanAllOfIndexesWitness ==
    /\ index_result.op = "scan_all"
    /\ index_result.error = "IndexNotFound"
    /\ \E c \in ColumnIds : secondary_index_by_column_id[c] # NoIndex /\ c # index_result.column_id


\* the records of the batch before the first one whose keyspace does not exist
applied_prefix(b) ==
    SubSeq(b, 1, Max({n \in 0..Len(b) : \A i \in 1..n : b[i].keyspace_id \in keyspaces}))

\* C28: a write_batch that fails on some record returns the error with the
\* records after it not applied, and no other transaction reads a write the
\* batch had made before: a read following the failed batch does not return
\* a value written under the batch's transaction.
FailedBatchStaysInvisible ==
    [][/\ \A b \in AllBatches :
            (write_batch(b) /\ ~last_call'.ok) =>
                memtable' = batch_effect(applied_prefix(b), next_txn_id)
       /\ (/\ last_call.op = "write_batch" /\ ~last_call.ok
           /\ last_call'.op \in {"get", "get_with_transaction"} /\ last_call'.ok)
          => last_call'.writer # last_call.txn_id]_vars


\* C29: with a value merger, the one entry yielded for a user key carries the
\* versioned key of that user key's newest version, the highest txn_id among
\* its versions; versions at txn 1, 3 and 4 are yielded as one entry with
\* txn_id 4.
MergedEntryCarriesNewestKey ==
    it.merger =>
        \A i \in 1..Len(yielded) :
            LET vs == versions_of(yielded[i].key) IN
            /\ \A j \in 1..Len(vs) : vs[j].txn_id <= yielded[i].txn_id
            /\ \E j \in 1..Len(vs) : vs[j].txn_id = yielded[i].txn_id
            /\ [j \in 1..Len(vs) |-> vs[j].txn_id] = <<1, 3, 4>> => yielded[i].txn_id = 4

\* C29 witness: with a merger, the entry yielded for a key with versions at
\* txn 1, 3 and 4
MergedEntryCarriesNewestKeyWitness ==
    /\ it.merger
    /\ \E i \in 1..Len(yielded) :
          LET vs == versions_of(yielded[i].key) IN
          [j \in 1..Len(vs) |-> vs[j].txn_id] = <<1, 3, 4>>


\* the keys of a and b the iterator has not been positioned on yet
keys_not_exposed ==
    (keys_of(child_a) \cup keys_of(child_b)) \ {exposed[i].key : i \in 1..Len(exposed)}

\* C30: has_next() of a TwoMergeIterator is true exactly when the next call of
\* next() positions the iterator on an entry not yet yielded: true before the
\* first next() whenever a or b holds an entry, true before each later
\* entry, false once every entry was yielded.
TwoMergeHasNextExact ==
    two_merge_state # "panicked" =>
        LET r == two_merge_next_result(two_merge) IN
        /\ two_merge_has_next(two_merge) <=> keys_not_exposed # {}
        /\ two_merge_state = "alive" =>
              (two_merge_has_next(two_merge) <=>
                  /\ r.advanced
                  /\ two_merge_key_pos(r.st) # 0
                  /\ two_merge_key(r.st) \in keys_not_exposed)


\* C31: over a finite inner iterator with entries every call of next()
\* returns, also when the last user key has two or more versions, and once
\* next() has returned false the next call returns false again.
NextTerminates ==
    inner # << >> =>
        /\ it_state # "diverged"
        /\ last_result.op = "next" => last_result.outcome \in {"true", "false"}
        /\ (next_reported_end /\ it_state = "alive") => next(it).outcome = "false"

\* C32: over an inner iterator without entries the first next() returns
\* false, and key() and value() of the unpositioned inner iterator are never
\* read (no call of next() ends in the panic of that read).
EmptyInnerReturnsFalse ==
    inner = << >> =>
        /\ last_result.first_next \in {"none", "false"}
        /\ ~(last_result.op = "next" /\ last_result.outcome = "panic")


\* C33: a completion record written by the worker refers to the operation
\* that a successful append_operation recorded for the task of the same loop
\* iteration, is written only after the execution of that task has returned,
\* and no operation is marked completed twice; nothing else marks a
\* compaction operation completed.
CompletionRecordsOfWorker ==
    [][/\ worker_mark_as_completed =>
            LET w == compactor["worker"] IN
            /\ w.result \in {"Ok", "Err"}
            /\ w.operation_id # 0 =>
                  /\ w.operation_id \in 1..Len(manifest)
                  /\ manifest[w.operation_id].kind = "Compaction"
                  /\ manifest[w.operation_id].inputs = w.task
                  /\ ~manifest[w.operation_id].completed
            /\ \A i \in 1..Len(manifest) :
                  i # w.operation_id => manifest'[i] = manifest[i]
       /\ \A i \in 1..Len(manifest) :
            (Len(manifest') = Len(manifest) /\ manifest'[i].completed /\ ~manifest[i].completed)
                => /\ compactor["worker"].pc = "returned"
                   /\ compactor["worker"].operation_id = i]_vars

\* C33 witness: the worker has marked the operation of its task completed and
\* sleeps again
CompletionRecordsOfWorkerWitness ==
    /\ compactor["worker"].pc = "sleep"
    /\ \E i \in 1..Len(manifest) : manifest[i].kind = "Compaction" /\ manifest[i].completed


\* C34: the transaction that get, set, delete, scan_all, write_batch and the
\* parameterless start_transaction start is a SnapshotIsolation transaction.
StorageStartsSnapshotIsolation ==
    last_call.op \in {"get", "set", "delete", "scan_all", "write_batch", "start_transaction"}
        => transactions[last_call.txn_id].isolation_level = SnapshotIsolation

====
